---- MODULE Spec2Model ----
(***************************************************************************)
(* A model of tools/extract_drums.py: the SoundFont drum extraction, the   *)
(* per-file WAV -> RAW conversion loop of main(), and the AudioPlayMemory  *)
(* packing done by save_as_raw / generate_c_header.                        *)
(*                                                                         *)
(* Text is modelled as sequences of one-character strings so that          *)
(* lower(), replace(), substring tests, suffix matches and the ordering    *)
(* used by sorted() are computed, not assumed.                             *)
(***************************************************************************)
EXTENDS Integers, Sequences, FiniteSets, TLC

VARIABLES
    \* ---- encoder (save_as_raw / generate_c_header) ----
    enc_pc,        \* "save" | "header" | "done" | "idle"
    audio_data,    \* the float buffer handed to save_as_raw, as fractions
    audio_int16,   \* the quantized samples save_as_raw writes
    raw_file,      \* bytes of <name>.raw, or None
    h_file,        \* the declaration file, or None
    cpp_file,      \* the definition file, or None
    \* ---- header word of generate_c_header on large counts ----
    hdr_pc,        \* "count" | "written" | "idle"
    num_samples,   \* len(data) // 2
    format_word,   \* the first literal of the array, or None
    \* ---- main() and extract_drums_from_sf2 ----
    pc,                \* the statement main() is at
    input,             \* sys.argv[1]: [exists, is_dir, name]
    os_name,           \* "posix" | "windows": the flavour of pathlib
    bank,              \* the parsed SoundFont: [presets]
    files,             \* the directory the WAV files are read from
    sf2_file,          \* "none" | "open" | "closed": the bank's file object
    close_count,       \* calls of sf2_file.close()
    drum_presets,      \* indices of the candidate presets
    drum_preset,       \* index of the chosen preset, 0 before the choice
    instrument,        \* the resolved instrument
    note_num,          \* the loop variable of the extraction loop
    extracted_samples, \* the list returned by extract_drums_from_sf2
    pending,           \* the exception unwinding through "finally", or None
    wav_files,         \* the list main() collects
    wav_sorted,        \* sorted(wav_files)
    wav_idx,           \* position of the conversion loop in wav_sorted
    results,           \* the results of the files converted
    assets,            \* the assets written: [name, array, guard, samples]
    exit_code,         \* -1 while running, then the process exit status
    exc,               \* the uncaught exception that ended the run, or None
    summary,           \* TRUE once the summary table is printed
    processed,         \* history: the files given to process_wav_to_raw
    \* ---- trim_silence, apply_fade_in, apply_fade_out on one buffer ----
    dsp_pc,        \* "call" | "returned" | "raised" | "idle"
    dsp_fn,        \* the function this run calls, or None
    audio_in,      \* history: the buffer as it was when the function was called
    audio_out,     \* the buffer the function returned, or None
    dsp_exc        \* the exception the function raised, or None

encVars == <<enc_pc, audio_data, audio_int16, raw_file, h_file, cpp_file>>
hdrVars == <<hdr_pc, num_samples, format_word>>
inVars == <<input, os_name, bank>>
sf2Vars == <<sf2_file, close_count, drum_presets, drum_preset, instrument,
             note_num, extracted_samples, pending>>
convVars == <<wav_files, wav_sorted, wav_idx, results, assets, summary, processed>>
mainVars == <<pc, inVars, files, sf2Vars, convVars, exit_code, exc>>
dspVars == <<dsp_pc, dsp_fn, audio_in, audio_out, dsp_exc>>
vars == <<encVars, hdrVars, dspVars, mainVars>>

None == "None"

(***************************************************************************)
(* Bounds of the model.                                                    *)
(***************************************************************************)
MaxLen == 3        \* longest quantized buffer given to the encoder
MaxCount == 70     \* small sample counts tried for the header word
MaxPresets == 2    \* longest preset list of a bank
MaxBags == 2       \* longest bag list of the drum instrument

(***************************************************************************)
(* Integer helpers.                                                        *)
(***************************************************************************)
Pow2(n) == 2 ^ n

Min(a, b) == IF a <= b THEN a ELSE b

Max(a, b) == IF a >= b THEN a ELSE b

Abs(x) == IF x < 0 THEN -x ELSE x

\* a float as the exact fraction n/d, d > 0
Frac(n, d) == [n |-> n, d |-> d]

\* x & (2^w - 1) for a Python int x (two's complement of unbounded width)
MaskBits(x, w) == x % Pow2(w)

\* the signed value of a w-bit two's-complement pattern u
ToSigned(u, w) == IF u >= Pow2(w - 1) THEN u - Pow2(w) ELSE u

(***************************************************************************)
(* save_as_raw: int16 samples -> little-endian bytes.                      *)
(***************************************************************************)
RECURSIVE Flatten(_)
Flatten(ss) == IF ss = <<>> THEN <<>> ELSE Head(ss) \o Flatten(Tail(ss))

\* numpy int16.tobytes(): two bytes per sample, low byte first
Int16ToBytes(s) == <<MaskBits(s, 16) % 256, MaskBits(s, 16) \div 256>>

ToBytes(samples) == Flatten([i \in 1..Len(samples) |-> Int16ToBytes(samples[i])])

\* struct.unpack('<{n}h', data): n little-endian signed 16-bit values
Unpack(data, n) ==
    [i \in 1..n |-> ToSigned(data[2 * i - 1] + 256 * data[2 * i], 16)]

(***************************************************************************)
(* generate_c_header: the packed array.                                    *)
(***************************************************************************)
FormatTag == 129   \* 0x81

CountMask == 16777215   \* 0xFFFFFF

\* num_uint32 = 1 + (num_samples + 1) // 2
NumUint32_dropRound(n) == 1 + n \div 2

NumUint32(n) == 1 + (n + 1) \div 2

\* A 32-bit word is kept as its two 16-bit halves [hi, lo], so that no
\* intermediate value needs more than 31 bits.
Word32(hi, lo) == [hi |-> hi, lo |-> lo]

\* format_word = (0x81 << 24) | (num_samples & 0xFFFFFF)
FormatWord(n) ==
    LET count == n % (CountMask + 1)
    IN  Word32(FormatTag * 256 + count \div Pow2(16), count % Pow2(16))

\* packed = sample1 | (sample2 << 16), sample2 = 0 past the end
PackWord_swapped(samples, i) ==
    LET sample1 == MaskBits(samples[i + 1], 16)
        sample2 == IF i + 1 < Len(samples) THEN MaskBits(samples[i + 2], 16) ELSE 0
    IN  Word32(sample1, sample2)

PackWord(samples, i) ==
    LET sample1 == MaskBits(samples[i + 1], 16)
        sample2 == IF i + 1 < Len(samples) THEN MaskBits(samples[i + 2], 16) ELSE 0
    IN  Word32(sample2, sample1)

HexDigits == <<"0", "1", "2", "3", "4", "5", "6", "7",
               "8", "9", "A", "B", "C", "D", "E", "F">>

\* f"0x{w:08X}": at least eight upper-case hex digits
RECURSIVE HexOf(_)
HexOf(w) == IF w < 16 THEN <<HexDigits[w + 1]>>
            ELSE Append(HexOf(w \div 16), HexDigits[(w % 16) + 1])

RECURSIVE ZeroPad(_, _)
ZeroPad(ds, width) == IF Len(ds) >= width THEN ds ELSE ZeroPad(<<"0">> \o ds, width)

\* the eight digits of a word: those of its upper half, then of its lower
Hex08(w) == ZeroPad(HexOf(w.hi), 4) \o ZeroPad(HexOf(w.lo), 4)

\* the literals written by the loop "for i in range(0, num_samples, 2)"
RECURSIVE PackLoop(_, _)
PackLoop(samples, i) ==
    IF i >= Len(samples) THEN <<>>
    ELSE <<Hex08(PackWord(samples, i))>> \o PackLoop(samples, i + 2)

(***************************************************************************)
(* Text: a str is a sequence of one-character strings.                     *)
(***************************************************************************)
\* the printable ASCII characters, code 32 (space) first; the double quote,
\* the backslash and the backtick are written as named tokens
Ascii == <<
    " ", "!", "QUOTE", "#", "$", "%", "&", "'", "(", ")", "*", "+",
    ",", "-", ".", "/", "0", "1", "2", "3", "4", "5", "6", "7",
    "8", "9", ":", ";", "<", "=", ">", "?", "@", "A", "B", "C",
    "D", "E", "F", "G", "H", "I", "J", "K", "L", "M", "N", "O",
    "P", "Q", "R", "S", "T", "U", "V", "W", "X", "Y", "Z", "[",
    "BACKSLASH", "]", "^", "_", "BACKTICK", "a", "b", "c", "d", "e", "f", "g",
    "h", "i", "j", "k", "l", "m", "n", "o", "p", "q", "r", "s",
    "t", "u", "v", "w", "x", "y", "z", "{", "|", "}", "~">>

\* a NUL byte of a bytes name
NUL == "NUL"

\* position of each character in Ascii
AsciiIndex ==
    [c \in {Ascii[i] : i \in 1..Len(Ascii)} |-> CHOOSE i \in 1..Len(Ascii) : Ascii[i] = c]

\* ord(c)
Ord(c) == IF c = NUL THEN 0 ELSE 31 + AsciiIndex[c]

IsUpper(c) == Ord(c) >= 65 /\ Ord(c) <= 90

IsLowerCase(c) == Ord(c) >= 97 /\ Ord(c) <= 122

IsDigit(c) == Ord(c) >= 48 /\ Ord(c) <= 57

\* str.isalnum() on one ASCII character
IsAlnum(c) == IsUpper(c) \/ IsLowerCase(c) \/ IsDigit(c)

LowerChar(c) == IF IsUpper(c) THEN Ascii[Ord(c) + 32 - 31] ELSE c

\* str.lower()
Lower(s) == [i \in 1..Len(s) |-> LowerChar(s[i])]

\* str.replace(a, b) for single characters a, b
Replace(s, a, b) == [i \in 1..Len(s) |-> IF s[i] = a THEN b ELSE s[i]]

\* "sub in s"
Contains(s, sub) ==
    \E i \in 1..(Len(s) - Len(sub) + 1) : SubSeq(s, i, i + Len(sub) - 1) = sub

EndsWith(s, suffix) ==
    /\ Len(s) >= Len(suffix)
    /\ SubSeq(s, Len(s) - Len(suffix) + 1, Len(s)) = suffix

\* bytes.strip(b'\x00') after decoding
RECURSIVE StripNul(_)
StripNul(s) ==
    IF s = <<>> THEN s
    ELSE IF Head(s) = NUL THEN StripNul(Tail(s))
    ELSE IF s[Len(s)] = NUL THEN StripNul(SubSeq(s, 1, Len(s) - 1))
    ELSE s

\* str(n) for n >= 0
RECURSIVE DecOf(_)
DecOf(n) == IF n < 10 THEN <<HexDigits[n + 1]>>
            ELSE Append(DecOf(n \div 10), HexDigits[(n % 10) + 1])

\* a < b for str: by code point, a proper prefix first
RECURSIVE StrLess(_, _)
StrLess(a, b) ==
    IF b = <<>> THEN FALSE
    ELSE IF a = <<>> THEN TRUE
    ELSE IF Head(a) = Head(b) THEN StrLess(Tail(a), Tail(b))
    ELSE Ord(Head(a)) < Ord(Head(b))

\* index of the last "." of a file name, 0 when there is none
LastDot(name) ==
    IF \E i \in 1..Len(name) : name[i] = "."
    THEN CHOOSE i \in 1..Len(name) :
             name[i] = "." /\ \A j \in (i + 1)..Len(name) : name[j] # "."
    ELSE 0

\* PurePath.suffix and PurePath.stem of a file name
Suffix(name) == IF LastDot(name) > 1 /\ LastDot(name) < Len(name)
                THEN SubSeq(name, LastDot(name), Len(name)) ELSE <<>>

Stem(name) == IF LastDot(name) > 1 /\ LastDot(name) < Len(name)
              THEN SubSeq(name, 1, LastDot(name) - 1) ELSE name

(***************************************************************************)
(* GM_DRUM_MAP and the drum range of the extraction loop.                  *)
(***************************************************************************)
FirstNote == 27

LastNote == 87

GM_DRUM_MAP(n) ==
    IF n = 27 THEN <<"H", "i", "g", "h", " ", "Q">> ELSE
    IF n = 28 THEN <<"S", "l", "a", "p">> ELSE
    IF n = 29 THEN <<"S", "c", "r", "a", "t", "c", "h", " ", "P", "u", "s", "h">> ELSE
    IF n = 30 THEN <<"S", "c", "r", "a", "t", "c", "h", " ", "P", "u", "l", "l">> ELSE
    IF n = 31 THEN <<"S", "t", "i", "c", "k", "s">> ELSE
    IF n = 32 THEN <<"S", "q", "u", "a", "r", "e", " ", "C", "l", "i", "c", "k">> ELSE
    IF n = 33 THEN <<"M", "e", "t", "r", "o", "n", "o", "m", "e", " ", "C", "l", "i", "c", "k">> ELSE
    IF n = 34 THEN <<"M", "e", "t", "r", "o", "n", "o", "m", "e", " ", "B", "e", "l", "l">> ELSE
    IF n = 35 THEN <<"A", "c", "o", "u", "s", "t", "i", "c", " ", "B", "a", "s", "s", " ", "D", "r", "u", "m">> ELSE
    IF n = 36 THEN <<"B", "a", "s", "s", " ", "D", "r", "u", "m", " ", "1">> ELSE
    IF n = 37 THEN <<"S", "i", "d", "e", " ", "S", "t", "i", "c", "k">> ELSE
    IF n = 38 THEN <<"A", "c", "o", "u", "s", "t", "i", "c", " ", "S", "n", "a", "r", "e">> ELSE
    IF n = 39 THEN <<"H", "a", "n", "d", " ", "C", "l", "a", "p">> ELSE
    IF n = 40 THEN <<"E", "l", "e", "c", "t", "r", "i", "c", " ", "S", "n", "a", "r", "e">> ELSE
    IF n = 41 THEN <<"L", "o", "w", " ", "F", "l", "o", "o", "r", " ", "T", "o", "m">> ELSE
    IF n = 42 THEN <<"C", "l", "o", "s", "e", "d", " ", "H", "i", "-", "H", "a", "t">> ELSE
    IF n = 43 THEN <<"H", "i", "g", "h", " ", "F", "l", "o", "o", "r", " ", "T", "o", "m">> ELSE
    IF n = 44 THEN <<"P", "e", "d", "a", "l", " ", "H", "i", "-", "H", "a", "t">> ELSE
    IF n = 45 THEN <<"L", "o", "w", " ", "T", "o", "m">> ELSE
    IF n = 46 THEN <<"O", "p", "e", "n", " ", "H", "i", "-", "H", "a", "t">> ELSE
    IF n = 47 THEN <<"L", "o", "w", "-", "M", "i", "d", " ", "T", "o", "m">> ELSE
    IF n = 48 THEN <<"H", "i", "-", "M", "i", "d", " ", "T", "o", "m">> ELSE
    IF n = 49 THEN <<"C", "r", "a", "s", "h", " ", "C", "y", "m", "b", "a", "l", " ", "1">> ELSE
    IF n = 50 THEN <<"H", "i", "g", "h", " ", "T", "o", "m">> ELSE
    IF n = 51 THEN <<"R", "i", "d", "e", " ", "C", "y", "m", "b", "a", "l", " ", "1">> ELSE
    IF n = 52 THEN <<"C", "h", "i", "n", "e", "s", "e", " ", "C", "y", "m", "b", "a", "l">> ELSE
    IF n = 53 THEN <<"R", "i", "d", "e", " ", "B", "e", "l", "l">> ELSE
    IF n = 54 THEN <<"T", "a", "m", "b", "o", "u", "r", "i", "n", "e">> ELSE
    IF n = 55 THEN <<"S", "p", "l", "a", "s", "h", " ", "C", "y", "m", "b", "a", "l">> ELSE
    IF n = 56 THEN <<"C", "o", "w", "b", "e", "l", "l">> ELSE
    IF n = 57 THEN <<"C", "r", "a", "s", "h", " ", "C", "y", "m", "b", "a", "l", " ", "2">> ELSE
    IF n = 58 THEN <<"V", "i", "b", "r", "a", "s", "l", "a", "p">> ELSE
    IF n = 59 THEN <<"R", "i", "d", "e", " ", "C", "y", "m", "b", "a", "l", " ", "2">> ELSE
    IF n = 60 THEN <<"H", "i", " ", "B", "o", "n", "g", "o">> ELSE
    IF n = 61 THEN <<"L", "o", "w", " ", "B", "o", "n", "g", "o">> ELSE
    IF n = 62 THEN <<"M", "u", "t", "e", " ", "H", "i", " ", "C", "o", "n", "g", "a">> ELSE
    IF n = 63 THEN <<"O", "p", "e", "n", " ", "H", "i", " ", "C", "o", "n", "g", "a">> ELSE
    IF n = 64 THEN <<"L", "o", "w", " ", "C", "o", "n", "g", "a">> ELSE
    IF n = 65 THEN <<"H", "i", "g", "h", " ", "T", "i", "m", "b", "a", "l", "e">> ELSE
    IF n = 66 THEN <<"L", "o", "w", " ", "T", "i", "m", "b", "a", "l", "e">> ELSE
    IF n = 67 THEN <<"H", "i", "g", "h", " ", "A", "g", "o", "g", "o">> ELSE
    IF n = 68 THEN <<"L", "o", "w", " ", "A", "g", "o", "g", "o">> ELSE
    IF n = 69 THEN <<"C", "a", "b", "a", "s", "a">> ELSE
    IF n = 70 THEN <<"M", "a", "r", "a", "c", "a", "s">> ELSE
    IF n = 71 THEN <<"S", "h", "o", "r", "t", " ", "W", "h", "i", "s", "t", "l", "e">> ELSE
    IF n = 72 THEN <<"L", "o", "n", "g", " ", "W", "h", "i", "s", "t", "l", "e">> ELSE
    IF n = 73 THEN <<"S", "h", "o", "r", "t", " ", "G", "u", "i", "r", "o">> ELSE
    IF n = 74 THEN <<"L", "o", "n", "g", " ", "G", "u", "i", "r", "o">> ELSE
    IF n = 75 THEN <<"C", "l", "a", "v", "e", "s">> ELSE
    IF n = 76 THEN <<"H", "i", " ", "W", "o", "o", "d", " ", "B", "l", "o", "c", "k">> ELSE
    IF n = 77 THEN <<"L", "o", "w", " ", "W", "o", "o", "d", " ", "B", "l", "o", "c", "k">> ELSE
    IF n = 78 THEN <<"M", "u", "t", "e", " ", "C", "u", "i", "c", "a">> ELSE
    IF n = 79 THEN <<"O", "p", "e", "n", " ", "C", "u", "i", "c", "a">> ELSE
    IF n = 80 THEN <<"M", "u", "t", "e", " ", "T", "r", "i", "a", "n", "g", "l", "e">> ELSE
    IF n = 81 THEN <<"O", "p", "e", "n", " ", "T", "r", "i", "a", "n", "g", "l", "e">> ELSE
    IF n = 82 THEN <<"S", "h", "a", "k", "e", "r">> ELSE
    IF n = 83 THEN <<"J", "i", "n", "g", "l", "e", " ", "B", "e", "l", "l">> ELSE
    IF n = 84 THEN <<"B", "e", "l", "l", " ", "T", "r", "e", "e">> ELSE
    IF n = 85 THEN <<"C", "a", "s", "t", "a", "n", "e", "t", "s">> ELSE
    IF n = 86 THEN <<"M", "u", "t", "e", " ", "S", "u", "r", "d", "o">> ELSE
    IF n = 87 THEN <<"O", "p", "e", "n", " ", "S", "u", "r", "d", "o">> ELSE
    None

\* GM_DRUM_MAP.get(note_num, f"Note{note_num}")
DrumName(n) == IF GM_DRUM_MAP(n) = None
               THEN <<"N", "o", "t", "e">> \o DecOf(n) ELSE GM_DRUM_MAP(n)

(***************************************************************************)
(* Inputs of main(): a SoundFont bank or a directory of files.             *)
(*                                                                         *)
(* An optional Python value is a record with a "present"/"type" field, so  *)
(* that None, a list and an int stay distinguishable (isinstance).         *)
(***************************************************************************)
\* ---- WAV files ----
\* Every WAV of the model is mono at 44100 Hz with each frame above the
\* trim threshold, so convert_to_mono, resample_audio and trim_silence
\* leave its length alone.  An unreadable file makes wave.open raise.
Wav(readable, sampwidth, frames) ==
    [readable |-> readable, sampwidth |-> sampwidth, frames |-> frames]

WavOk16 == Wav(TRUE, 2, <<1200, -800>>)

WavOk8 == Wav(TRUE, 1, <<200>>)

Wav24 == Wav(TRUE, 3, <<70000, -70000>>)

WavEmpty == Wav(TRUE, 2, <<>>)

WavCorrupt == Wav(FALSE, 2, <<>>)

WavKinds == {WavOk16, WavOk8, Wav24, WavEmpty, WavCorrupt}

\* ---- directory entries ----
Name_a_wav == <<"a", ".", "w", "a", "v">>

Name_B_WAV == <<"B", ".", "W", "A", "V">>

Name_c_txt == <<"c", ".", "t", "x", "t">>

Name_d_Wav == <<"d", ".", "W", "a", "v">>

Entry(name, wav) == [name |-> name, wav |-> wav]

\* file names with a space and a hyphen, with brackets, with a second dot
NamePool ==
    {<<"H", "i", "-", "H", "a", "t", " ", "1", ".", "w", "a", "v">>,
     <<"t", "o", "m", "(", "1", ")", ".", "w", "a", "v">>,
     <<"k", "i", "c", "k", ".", "v", "2", ".", "w", "a", "v">>}

\* the listings tried: any sub-listing of a.wav, B.WAV, c.txt, d.Wav
DirListings ==
    {ea \o eb \o ec \o ed :
        ea \in {<<>>} \cup {<<Entry(Name_a_wav, w)>> : w \in WavKinds},
        eb \in {<<>>} \cup {<<Entry(Name_B_WAV, w)>> : w \in WavKinds},
        ec \in {<<>>, <<Entry(Name_c_txt, WavCorrupt)>>},
        ed \in {<<>>} \cup {<<Entry(Name_d_Wav, w)>> : w \in {WavOk16, WavCorrupt}}}

\* ---- SoundFont structures (sf2utils objects) ----
NoSample == [present |-> FALSE]

\* readable = FALSE: reading raw_sample_data raises
Sample(name, readable, pcm) ==
    [present |-> TRUE, name |-> name, readable |-> readable, pcm |-> pcm]

KeyList(lo, hi) == [type |-> "list", v |-> <<lo, hi>>]

KeyInt(word) == [type |-> "int", v |-> word]

KeyNone == [type |-> "none"]

Bag(key_range, sample) == [key_range |-> key_range, sample |-> sample]

NoInstrument == [present |-> FALSE]

Instrument(name, bags) == [present |-> TRUE, name |-> name, bags |-> bags]

\* a preset bag holds the instrument reference
PBag(inst) == [instrument |-> inst]

NameStr(text) == [type |-> "str", text |-> text]

NameBytes(text) == [type |-> "bytes", text |-> text]

NameRaises == [type |-> "raises"]

\* bank = [has |-> FALSE]: the preset object has no "bank" attribute
Preset(bk, name, bags) == [bank |-> bk, name |-> name, bags |-> bags]

HasBank(n) == [has |-> TRUE, v |-> n]

NoBankAttr == [has |-> FALSE]

S_kick == Sample(<<"k", "i", "c", "k">>, TRUE, <<1000, -3>>)

S_snare == Sample(<<"s", "n", "a", "r", "e">>, TRUE, <<-2000>>)

S_global == Sample(<<"g", "l", "o", "b">>, TRUE, <<7>>)

S_tom == Sample(<<"t", "o", "m">>, TRUE, <<300, 301, 302>>)

S_bad == Sample(<<"b", "a", "d">>, FALSE, <<>>)

S_empty == Sample(<<"n", "i", "l">>, TRUE, <<>>)

\* the instrument bags tried: overlapping ranges, a bag without a range, a
\* matching bag without a sample, the packed-integer range form
\* (0x2624: low 36, high 38), an unreadable sample and an empty one
BagPool ==
    {Bag(KeyList(30, 40), S_kick),
     Bag(KeyList(35, 45), S_snare),
     Bag(KeyNone, S_global),
     Bag(KeyList(37, 37), NoSample),
     Bag(KeyInt(9764), S_tom),
     Bag(KeyList(40, 41), S_bad),
     Bag(KeyList(44, 44), S_empty)}

InstA == Instrument(<<"K", "i", "t", "A">>, <<Bag(KeyList(36, 36), S_kick)>>)

InstB == Instrument(<<"K", "i", "t", "B">>, <<Bag(KeyList(38, 38), S_snare)>>)

\* the presets tried: candidates by bank only, by name only ("standard",
\* "kit", "drum" in mixed case), a bytes name, a missing bank attribute, a
\* preset without bags, one without instrument, and an object that has
\* neither a bank nor a readable name
PresetPool ==
    {Preset(HasBank(128), NameStr(<<"R", "o", "o", "m">>), <<PBag(InstA)>>),
     Preset(HasBank(0), NameStr(<<"S", "t", "a", "n", "d", "a", "r", "d">>), <<PBag(InstB)>>),
     Preset(HasBank(0), NameStr(<<"P", "i", "a", "n", "o", " ", "1">>), <<PBag(InstA)>>),
     Preset(HasBank(128), NameBytes(<<"S", "T", "A", "N", "D", "A", "R", "D", " ", "2", NUL, NUL>>), <<>>),
     Preset(NoBankAttr, NameStr(<<"J", "a", "z", "z", " ", "K", "i", "t">>), <<PBag(NoInstrument)>>),
     Preset(HasBank(0), NameStr(<<"T", "R", "-", "8", "0", "8", " ", "D", "r", "u", "m", "s">>), <<PBag(InstA)>>),
     Preset(NoBankAttr, NameRaises, <<>>)}

StandardPreset(inst) ==
    Preset(HasBank(128), NameStr(<<"S", "t", "a", "n", "d", "a", "r", "d">>), <<PBag(inst)>>)

(***************************************************************************)
(* extract_drums_from_sf2: the pure parts.                                 *)
(***************************************************************************)
\* name if it is a str, else name.decode('utf-8', errors='ignore').strip('\x00')
PresetName(p) == IF p.name.type = "str" THEN p.name.text ELSE StripNul(p.name.text)

\* preset.bank if hasattr(preset, 'bank') else 0
BankNum(p) == IF p.bank.has THEN p.bank.v ELSE 0

Str_drum == <<"d", "r", "u", "m">>

Str_kit == <<"k", "i", "t">>

Str_standard == <<"s", "t", "a", "n", "d", "a", "r", "d">>

PercussionBank == 128

\* the test that appends a preset to drum_presets; a preset whose
\* attributes cannot be read is skipped by "except: continue"
IsDrumPreset(p) ==
    /\ p.name.type # "raises"
    /\ \/ BankNum(p) = PercussionBank
       \/ Contains(Lower(PresetName(p)), Str_drum)
       \/ Contains(Lower(PresetName(p)), Str_kit)
       \/ Contains(Lower(PresetName(p)), Str_standard)

\* drum_presets, as the indices into sf2.presets, in order
FindDrumPresets(presets) ==
    SelectSeq([i \in 1..Len(presets) |-> i], LAMBDA i : IsDrumPreset(presets[i]))

IsStandard(p) == Contains(Lower(PresetName(p)), Str_standard)

\* drum_preset = drum_presets[0], replaced by the first "standard" one
SelectDrumPreset_lastStandard(presets, cands) ==
    IF \E k \in 1..Len(cands) : IsStandard(presets[cands[k]])
    THEN cands[CHOOSE k \in 1..Len(cands) :
                   /\ IsStandard(presets[cands[k]])
                   /\ \A j \in (k + 1)..Len(cands) : ~IsStandard(presets[cands[j]])]
    ELSE cands[1]

SelectDrumPreset(presets, cands) ==
    IF \E k \in 1..Len(cands) : IsStandard(presets[cands[k]])
    THEN cands[CHOOSE k \in 1..Len(cands) :
                   /\ IsStandard(presets[cands[k]])
                   /\ \A j \in 1..(k - 1) : ~IsStandard(presets[cands[j]])]
    ELSE cands[1]

\* "if key_range:" for None, a list or an int
KeyTruthy(kr) ==
    CASE kr.type = "none" -> FALSE
      [] kr.type = "list" -> Len(kr.v) > 0
      [] kr.type = "int" -> kr.v # 0

LowKey(kr) == IF kr.type = "list" THEN kr.v[1] ELSE kr.v % 256

HighKey(kr) == IF kr.type = "list" THEN kr.v[2] ELSE (kr.v \div 256) % 256

BagMatches(bag, note) ==
    /\ KeyTruthy(bag.key_range)
    /\ LowKey(bag.key_range) <= note
    /\ note <= HighKey(bag.key_range)

\* the scan "for inst_bag in instrument.bags: ... break": sample_obj
FindSample_noBreak(bags, note) ==
    IF \E i \in 1..Len(bags) : BagMatches(bags[i], note)
    THEN bags[CHOOSE i \in 1..Len(bags) :
                  /\ BagMatches(bags[i], note)
                  /\ \A j \in (i + 1)..Len(bags) : ~BagMatches(bags[j], note)].sample
    ELSE NoSample

FindSample(bags, note) ==
    IF \E i \in 1..Len(bags) : BagMatches(bags[i], note)
    THEN bags[CHOOSE i \in 1..Len(bags) :
                  /\ BagMatches(bags[i], note)
                  /\ \A j \in 1..(i - 1) : ~BagMatches(bags[j], note)].sample
    ELSE NoSample

\* safe_name: lower, " " and "-" to "_", keep alphanumerics and "_"
SafeName(drum_name) ==
    SelectSeq(Replace(Replace(Lower(drum_name), " ", "_"), "-", "_"),
              LAMBDA c : IsAlnum(c) \/ c = "_")

Str_wav == <<".", "w", "a", "v">>

Str_WAV == <<".", "W", "A", "V">>

Str_sf2 == <<".", "s", "f", "2">>

\* f"{safe_name}_{note_num}.wav"
WavFileName(drum_name, note) == SafeName(drum_name) \o <<"_">> \o DecOf(note) \o Str_wav

\* one int16 v through float32: (v / 32768.0 * 32767).astype(int16).  The
\* product v - v/32768 lies strictly between v and the next integer toward
\* zero, and astype truncates toward zero.
ExtractConvert(v) == IF v > 0 THEN v - 1 ELSE IF v < 0 THEN v + 1 ELSE 0

\* the 16-bit mono WAV written for a sample
ExtractedWav(sample) ==
    Wav(TRUE, 2, [i \in 1..Len(sample.pcm) |-> ExtractConvert(sample.pcm[i])])

(***************************************************************************)
(* The file system: a listing of entries, looked up by name.               *)
(***************************************************************************)
HasFile(fs, name) == \E i \in 1..Len(fs) : fs[i].name = name

FileAt(fs, name) == fs[CHOOSE i \in 1..Len(fs) : fs[i].name = name].wav

\* wave.open(path, 'wb') ... writeframes: create or overwrite
WriteFile(fs, name, wav) ==
    IF HasFile(fs, name)
    THEN [i \in 1..Len(fs) |-> IF fs[i].name = name THEN Entry(name, wav) ELSE fs[i]]
    ELSE Append(fs, Entry(name, wav))

(***************************************************************************)
(* main(): the pure parts.                                                 *)
(***************************************************************************)
\* Path.glob("*" + ext): the names that end in ext, compared with case on
\* POSIX and without case on Windows, in listing order
GlobMatch(name, ext, os) ==
    IF os = "windows" THEN EndsWith(Lower(name), Lower(ext)) ELSE EndsWith(name, ext)

Glob(fs, ext, os) ==
    SelectSeq([i \in 1..Len(fs) |-> fs[i].name], LAMBDA n : GlobMatch(n, ext, os))

\* list(input_path.glob("*.wav")) + list(input_path.glob("*.WAV"))
ListWavFiles(fs, os) == Glob(fs, Str_wav, os) \o Glob(fs, Str_WAV, os)

\* Path.__lt__: by the name on POSIX, by the case-folded name on Windows
PathLess(a, b, os) ==
    IF os = "windows" THEN StrLess(Lower(a), Lower(b)) ELSE StrLess(a, b)

\* sorted(): stable, an element goes after every element not greater
Insert(s, x, os) ==
    LET k == IF \E i \in 1..Len(s) : PathLess(x, s[i], os)
             THEN CHOOSE i \in 1..Len(s) :
                      /\ PathLess(x, s[i], os)
                      /\ \A j \in 1..(i - 1) : ~PathLess(x, s[j], os)
             ELSE Len(s) + 1
    IN  SubSeq(s, 1, k - 1) \o <<x>> \o SubSeq(s, k, Len(s))

RECURSIVE Sorted(_, _)
Sorted(s, os) ==
    IF s = <<>> THEN <<>>
    ELSE Insert(Sorted(SubSeq(s, 1, Len(s) - 1), os), s[Len(s)], os)

\* wav_path.stem.lower().replace(' ', '_').replace('-', '_')
SampleName(name) == Replace(Replace(Lower(Stem(name)), " ", "_"), "-", "_")

\* s.upper() on ASCII text
Upper(s) == [i \in 1..Len(s) |-> IF IsLowerCase(s[i]) THEN Ascii[Ord(s[i]) - 32 - 31]
                                 ELSE s[i]]

\* the array generate_c_header declares: {sample_name}_data
ArrayIdent(sample_name) == sample_name \o <<"_", "d", "a", "t", "a">>

\* its include guard: {sample_name.upper()}_H
GuardMacro(sample_name) == Upper(sample_name) \o <<"_", "H">>

\* process_wav_to_raw on one file: what it returns or raises
\*   wave.open raises on a file that is no WAV;
\*   a sample width other than 1 or 2 returns None;
\*   np.max of an empty array raises ValueError in trim_silence
ProcessWav(wav, sample_name) ==
    IF ~wav.readable THEN [kind |-> "raise", exc |-> "wave.Error"]
    ELSE IF wav.sampwidth \notin {1, 2} THEN [kind |-> "none"]
    ELSE IF Len(wav.frames) = 0 THEN [kind |-> "raise", exc |-> "ValueError"]
    ELSE [kind |-> "result",
          result |-> [name |-> sample_name,
                      raw_file |-> sample_name \o <<".", "r", "a", "w">>,
                      h_file |-> sample_name \o <<".", "h">>,
                      cpp_file |-> sample_name \o <<".", "c", "p", "p">>,
                      size_bytes |-> Len(wav.frames) * 2,
                      samples |-> Len(wav.frames)]]

(***************************************************************************)
(* The encoder as run by process_wav_to_raw: save_as_raw, then             *)
(* generate_c_header reading the raw file back.                            *)
(***************************************************************************)
BoundedSeq(S, n) == UNION {[1..k -> S] : k \in 0..n}

\* representative int16 values: both extremes, small values of either sign,
\* and 0x1234, whose two bytes differ
Int16Pool == {-32768, -2, 0, 1, 4660, 32767}

\* the floats tried: the ones that scale to the values of Int16Pool, and
\* two that scale to no whole number (2/3 * 32767 = 21844.67)
FloatPool == {Frac(v, 32767) : v \in Int16Pool} \cup {Frac(2, 3), Frac(-2, 3)}

\* the factor of audio_data * 32767
QuantizeScale == 32767

\* astype(np.int16) of a float within the int16 range: the fraction is dropped
TruncDiv(n, d) == IF n >= 0 THEN n \div d ELSE 0 - ((0 - n) \div d)

\* (audio_data * 32767).astype(np.int16)
Quantize(audio) == [i \in 1..Len(audio) |-> TruncDiv(audio[i].n * QuantizeScale, audio[i].d)]

SaveAsRaw ==
    /\ enc_pc = "save"
    /\ audio_int16' = Quantize(audio_data)
    /\ raw_file' = ToBytes(audio_int16')
    /\ enc_pc' = "header"
    /\ UNCHANGED <<audio_data, h_file, cpp_file, hdrVars, dspVars, mainVars>>

GenerateCHeader ==
    /\ enc_pc = "header"
    /\ LET data == raw_file
           n == Len(data) \div 2
           samples == Unpack(data, n)
           num_uint32 == NumUint32(n)
       IN  /\ h_file' = [array_len |-> num_uint32]
           /\ cpp_file' = [array_len |-> num_uint32,
                           literals |-> <<Hex08(FormatWord(n))>> \o PackLoop(samples, 0)]
    /\ enc_pc' = "done"
    /\ UNCHANGED <<audio_data, audio_int16, raw_file, hdrVars, dspVars, mainVars>>

HdrIdle == hdr_pc = "idle" /\ num_samples = 0 /\ format_word = None

DspIdle ==
    /\ dsp_pc = "idle" /\ dsp_fn = None
    /\ audio_in = <<>> /\ audio_out = None /\ dsp_exc = None

MainIdle ==
    /\ pc = "idle"
    /\ input = [exists |-> FALSE, is_dir |-> FALSE, name |-> <<>>]
    /\ os_name = "posix"
    /\ bank = [presets |-> <<>>]
    /\ files = <<>>
    /\ sf2_file = "none" /\ close_count = 0
    /\ drum_presets = <<>> /\ drum_preset = 0
    /\ instrument = NoInstrument
    /\ note_num = 0
    /\ extracted_samples = <<>>
    /\ pending = None
    /\ wav_files = <<>> /\ wav_sorted = <<>> /\ wav_idx = 0
    /\ results = <<>> /\ assets = {}
    /\ exit_code = -1 /\ exc = None
    /\ summary = FALSE
    /\ processed = <<>>

EncIdle ==
    /\ enc_pc = "idle" /\ audio_data = <<>> /\ audio_int16 = <<>>
    /\ raw_file = None /\ h_file = None /\ cpp_file = None

InitEnc ==
    /\ enc_pc = "save"
    /\ audio_data \in BoundedSeq(FloatPool, MaxLen)
    /\ audio_int16 = <<>>
    /\ raw_file = None /\ h_file = None /\ cpp_file = None
    /\ HdrIdle
    /\ DspIdle
    /\ MainIdle

NextEnc == SaveAsRaw \/ GenerateCHeader

SpecEnc == InitEnc /\ [][NextEnc]_vars

(***************************************************************************)
(* The header word alone, on sample counts up to and past the 24-bit       *)
(* count field (a raw file of 2^25 bytes and more).                        *)
(***************************************************************************)
HeaderCounts == (0..MaxCount) \cup ((Pow2(24) - 2)..(Pow2(24) + MaxCount))

WriteFormatWord ==
    /\ hdr_pc = "count"
    /\ format_word' = Hex08(FormatWord(num_samples))
    /\ hdr_pc' = "written"
    /\ UNCHANGED <<num_samples, encVars, dspVars, mainVars>>

InitHeader ==
    /\ hdr_pc = "count"
    /\ num_samples \in HeaderCounts
    /\ format_word = None
    /\ EncIdle
    /\ DspIdle
    /\ MainIdle

NextHeader == WriteFormatWord

SpecHeader == InitHeader /\ [][NextHeader]_vars

(***************************************************************************)
(* trim_silence, apply_fade_in and apply_fade_out as functions of one      *)
(* buffer, called the way process_wav_to_raw calls them.                   *)
(*                                                                         *)
(* A float sample is an exact number: going in, an integer count of        *)
(* 1/32768 steps (what a 16-bit frame divided by 32768.0 is); coming out   *)
(* of a fade, a fraction [n, d] of such steps.  The rounding of float32 is *)
(* left out; no sample of the inputs lies on the trim threshold, where     *)
(* that rounding would decide the comparison.                              *)
(***************************************************************************)
MaxSlack == 1      \* how far past each margin and window the buffers reach

\* np.max(np.abs(audio_data)) of a buffer that is not empty
PeakOf(audio) ==
    LET S == {Abs(audio[i]) : i \in 1..Len(audio)}
    IN  CHOOSE m \in S : \A x \in S : x <= m

\* threshold = 0.01: abs_audio > max_val * threshold
ThresholdInverse == 100

\* samples kept before the first sample above the threshold
LeadIn == 100

\* added to the index of the last sample above the threshold
TailKeep == 4410

\* trim_silence(audio_data) on a buffer that is not empty; Python indices
\* start at 0, and the slice [start:end] leaves index end out
TrimSilenceOf(audio) ==
    LET n == Len(audio)
        max_val == PeakOf(audio)
        NonSilent(i) == Abs(audio[i]) * ThresholdInverse > max_val
    IN  IF \A i \in 1..n : ~NonSilent(i) THEN audio
        ELSE LET first == CHOOSE i \in 1..n :
                              NonSilent(i) /\ \A j \in 1..(i - 1) : ~NonSilent(j)
                 last == CHOOSE i \in 1..n :
                              NonSilent(i) /\ \A j \in (i + 1)..n : ~NonSilent(j)
                 start == Max(0, (first - 1) - LeadIn)
                 end == Min(n, (last - 1) + TailKeep)
             IN  SubSeq(audio, start + 1, end)

\* np.linspace(start, stop, num)[k] for k = 0..num-1
Linspace_noEndpoint(start, stop, num, k) ==
    Frac(start * num + k * (stop - start), num)

Linspace(start, stop, num, k) ==
    IF num = 1 THEN Frac(start, 1)
    ELSE Frac(start * (num - 1) + k * (stop - start), num - 1)

\* x * fade[k]
Scale(x, f) == Frac(x * f.n, f.d)

\* fade_samples of process_wav_to_raw
FadeInSamples == 882

FadeOutSamples == 2205

\* if len(audio_data) < fade_samples: fade_samples = len(audio_data)
FadeWindow(audio, fade_samples) ==
    IF Len(audio) < fade_samples THEN Len(audio) ELSE fade_samples

\* apply_fade_in: audio_data[:fade_samples] *= np.linspace(0.0, 1.0, fade_samples)
ApplyFadeInOf(audio, fade_samples) ==
    LET w == FadeWindow(audio, fade_samples)
    IN  [i \in 1..Len(audio) |->
            IF i <= w THEN Scale(audio[i], Linspace(0, 1, w, i - 1))
            ELSE Frac(audio[i], 1)]

\* apply_fade_out: audio_data[-fade_samples:] *= np.linspace(1.0, 0.0, fade_samples)
ApplyFadeOutOf(audio, fade_samples) ==
    LET w == FadeWindow(audio, fade_samples)
        n == Len(audio)
    IN  [i \in 1..n |->
            IF i > n - w THEN Scale(audio[i], Linspace(1, 0, w, i - (n - w) - 1))
            ELSE Frac(audio[i], 1)]

\* ---- the buffers tried ----
\* a buffer with samples of 300 and -300 steps at the ends of its loud part
\* and a level of 0 or 2 steps (under 1% of 300) everywhere else
TrimBuffer(lead, span, tail, quiet) ==
    [i \in 1..(lead + span + tail + 1) |->
        IF i = lead + 1 THEN 300
        ELSE IF i = lead + span + 1 THEN -300
        ELSE quiet]

\* lead-ins and tails at the ends of the buffer and around the two margins;
\* digital silence of a few lengths, the empty buffer among them
TrimInputs ==
    {TrimBuffer(lead, span, tail, quiet) :
        lead \in (0..MaxSlack) \cup ((LeadIn - 1)..(LeadIn + MaxSlack)),
        span \in 0..MaxSlack,
        tail \in (0..MaxSlack) \cup ((TailKeep - 2)..(TailKeep + MaxSlack)),
        quiet \in {0, 2}}
    \cup {[i \in 1..k |-> 0] : k \in 0..(MaxSlack + 1)}

\* lengths at the short end and around the two fade windows
FadeLengths ==
    (0..(MaxSlack + 1))
    \cup ((FadeInSamples - 1)..(FadeInSamples + MaxSlack))
    \cup ((FadeOutSamples - 1)..(FadeOutSamples + MaxSlack))

\* buffers without a zero sample: constant, alternating in sign, varying
FadeInputs ==
    {[i \in 1..k |-> 1] : k \in FadeLengths}
    \cup {[i \in 1..k |-> IF i % 2 = 1 THEN 1 ELSE -1] : k \in FadeLengths}
    \cup {[i \in 1..k |-> (i % 3) + 1] : k \in FadeLengths}

\* audio_data = trim_silence(audio_data)
TrimSilence ==
    /\ dsp_pc = "call" /\ dsp_fn = "trim_silence"
    /\ IF audio_in = <<>>
       THEN \* np.max of an empty array raises ValueError
            /\ dsp_pc' = "raised"
            /\ dsp_exc' = "ValueError"
            /\ UNCHANGED audio_out
       ELSE /\ audio_out' = TrimSilenceOf(audio_in)
            /\ dsp_pc' = "returned"
            /\ UNCHANGED dsp_exc
    /\ UNCHANGED <<dsp_fn, audio_in, encVars, hdrVars, mainVars>>

\* audio_data = apply_fade_in(audio_data, fade_samples=882)
ApplyFadeIn ==
    /\ dsp_pc = "call" /\ dsp_fn = "apply_fade_in"
    /\ audio_out' = ApplyFadeInOf(audio_in, FadeInSamples)
    /\ dsp_pc' = "returned"
    /\ UNCHANGED <<dsp_fn, audio_in, dsp_exc, encVars, hdrVars, mainVars>>

\* audio_data = apply_fade_out(audio_data, fade_samples=2205)
ApplyFadeOut ==
    /\ dsp_pc = "call" /\ dsp_fn = "apply_fade_out"
    /\ audio_out' = ApplyFadeOutOf(audio_in, FadeOutSamples)
    /\ dsp_pc' = "returned"
    /\ UNCHANGED <<dsp_fn, audio_in, dsp_exc, encVars, hdrVars, mainVars>>

InitDsp ==
    /\ dsp_pc = "call"
    /\ \/ dsp_fn = "trim_silence" /\ audio_in \in TrimInputs
       \/ dsp_fn \in {"apply_fade_in", "apply_fade_out"} /\ audio_in \in FadeInputs
    /\ audio_out = None /\ dsp_exc = None
    /\ EncIdle
    /\ HdrIdle
    /\ MainIdle

NextDsp == TrimSilence \/ ApplyFadeIn \/ ApplyFadeOut

SpecDsp == InitDsp /\ [][NextDsp]_vars

(***************************************************************************)
(* main() and extract_drums_from_sf2, statement by statement.              *)
(***************************************************************************)
Name_bank == <<"g", "m", ".", "S", "F", "2">>

Name_dir == <<"w", "a", "v", "s">>

Name_other == <<"n", "o", "t", "e", "s", ".", "t", "x", "t">>

\* sys.exit(code), or an uncaught exception e (exit status 1)
Exit(code, e) == pc' = "exit" /\ exit_code' = code /\ exc' = e

\* input validation and the choice between the bank and the directory path
CheckInput ==
    /\ pc = "main"
    /\ IF ~input.exists
       THEN Exit(1, None) /\ UNCHANGED wav_files
       ELSE IF ~input.is_dir /\ Lower(Suffix(input.name)) = Str_sf2
       THEN pc' = "open" /\ UNCHANGED <<wav_files, exit_code, exc>>
       ELSE IF input.is_dir
       THEN LET found == ListWavFiles(files, os_name)
            IN  /\ wav_files' = found
                /\ IF found = <<>> THEN Exit(1, None)
                   ELSE pc' = "convert_start" /\ UNCHANGED <<exit_code, exc>>
       ELSE Exit(1, None) /\ UNCHANGED wav_files
    /\ UNCHANGED <<inVars, files, sf2Vars, wav_sorted, wav_idx, results, assets,
                   summary, processed, encVars, hdrVars, dspVars>>

\* sf2_file = open(sf2_path, 'rb'), before the try block
OpenBank ==
    /\ pc = "open"
    /\ \E ok \in BOOLEAN :
          IF ok
          THEN sf2_file' = "open" /\ pc' = "parse" /\ UNCHANGED <<exit_code, exc>>
          ELSE Exit(1, "OSError") /\ UNCHANGED sf2_file
    /\ UNCHANGED <<inVars, files, close_count, drum_presets, drum_preset, instrument,
                   note_num, extracted_samples, pending, convVars, encVars, hdrVars, dspVars>>

\* sf2 = Sf2File(sf2_file)
ParseBank_withBlock ==
    /\ pc = "parse"
    /\ \E ok \in BOOLEAN :
          IF ok THEN pc' = "find_presets" /\ UNCHANGED pending
          ELSE pc' = "finally" /\ pending' = "Sf2ParseError"
    /\ sf2_file' = "closed"
    /\ close_count' = close_count + 1
    /\ UNCHANGED <<inVars, files, drum_presets, drum_preset,
                   instrument, note_num, extracted_samples, convVars, exit_code, exc,
                   encVars, hdrVars, dspVars>>

ParseBank ==
    /\ pc = "parse"
    /\ \E ok \in BOOLEAN :
          IF ok THEN pc' = "find_presets" /\ UNCHANGED pending
          ELSE pc' = "finally" /\ pending' = "Sf2ParseError"
    /\ UNCHANGED <<inVars, files, sf2_file, close_count, drum_presets, drum_preset,
                   instrument, note_num, extracted_samples, convVars, exit_code, exc,
                   encVars, hdrVars, dspVars>>

\* the loop over sf2.presets; "return []" with no candidate
ScanPresets ==
    /\ pc = "find_presets"
    /\ drum_presets' = FindDrumPresets(bank.presets)
    /\ pc' = IF drum_presets' = <<>> THEN "finally" ELSE "select"
    /\ UNCHANGED <<inVars, files, sf2_file, close_count, drum_preset, instrument,
                   note_num, extracted_samples, pending, convVars, exit_code, exc,
                   encVars, hdrVars, dspVars>>

\* drum_preset = drum_presets[0], or the first "standard" candidate
ChoosePreset ==
    /\ pc = "select"
    /\ drum_preset' = SelectDrumPreset(bank.presets, drum_presets)
    /\ pc' = "instrument"
    /\ UNCHANGED <<inVars, files, sf2_file, close_count, drum_presets, instrument,
                   note_num, extracted_samples, pending, convVars, exit_code, exc,
                   encVars, hdrVars, dspVars>>

\* instrument = drum_preset.bags[0].instrument; "return []" without bags or
\* without instrument
ResolveInstrument ==
    /\ pc = "instrument"
    /\ LET p == bank.presets[drum_preset]
       IN  IF p.bags = <<>> \/ ~p.bags[1].instrument.present
           THEN pc' = "finally" /\ UNCHANGED <<instrument, note_num>>
           ELSE /\ instrument' = p.bags[1].instrument
                /\ note_num' = FirstNote
                /\ pc' = "notes"
    /\ UNCHANGED <<inVars, files, sf2_file, close_count, drum_presets, drum_preset,
                   extracted_samples, pending, convVars, exit_code, exc,
                   encVars, hdrVars, dspVars>>

\* one iteration of "for note_num in range(27, 88)": find the sample, read
\* it through the open file, write the WAV; a failure inside the try block
\* is printed and the note skipped
ExtractNote ==
    /\ pc = "notes"
    /\ LET sample_obj == FindSample(instrument.bags, note_num)
           drum_name == DrumName(note_num)
           wav_path == WavFileName(drum_name, note_num)
       IN  IF sample_obj.present /\ sample_obj.readable /\ sf2_file = "open"
           THEN /\ files' = WriteFile(files, wav_path, ExtractedWav(sample_obj))
                /\ extracted_samples' =
                       Append(extracted_samples,
                              [note |-> note_num, name |-> drum_name,
                               wav_path |-> wav_path])
           ELSE UNCHANGED <<files, extracted_samples>>
    /\ note_num' = note_num + 1
    /\ pc' = IF note_num = LastNote THEN "finally" ELSE "notes"
    /\ UNCHANGED <<inVars, sf2_file, close_count, drum_presets, drum_preset,
                   instrument, pending, convVars, exit_code, exc, encVars, hdrVars, dspVars>>

\* finally: sf2_file.close(); then the return, or the exception going on
\* through main()
Finally ==
    /\ pc = "finally"
    /\ sf2_file' = "closed"
    /\ close_count' = close_count + 1
    /\ IF pending # None
       THEN Exit(1, pending)
       ELSE pc' = "returned" /\ UNCHANGED <<exit_code, exc>>
    /\ UNCHANGED <<inVars, files, drum_presets, drum_preset, instrument, note_num,
                   extracted_samples, pending, convVars, encVars, hdrVars, dspVars>>

\* back in main(): "if not extracted: sys.exit(1)", else the WAVs written
AfterExtract ==
    /\ pc = "returned"
    /\ IF extracted_samples = <<>>
       THEN Exit(1, None) /\ UNCHANGED wav_files
       ELSE /\ wav_files' = [i \in 1..Len(extracted_samples) |->
                                extracted_samples[i].wav_path]
            /\ pc' = "convert_start"
            /\ UNCHANGED <<exit_code, exc>>
    /\ UNCHANGED <<inVars, files, sf2Vars, wav_sorted, wav_idx, results, assets,
                   summary, processed, encVars, hdrVars, dspVars>>

\* "for wav_path in sorted(wav_files)": the list is sorted once
BeginConvert ==
    /\ pc = "convert_start"
    /\ wav_sorted' = Sorted(wav_files, os_name)
    /\ wav_idx' = 1
    /\ pc' = "convert"
    /\ UNCHANGED <<inVars, files, sf2Vars, wav_files, results, assets, summary,
                   processed, exit_code, exc, encVars, hdrVars, dspVars>>

\* one iteration of the conversion loop
ConvertOne ==
    /\ pc = "convert"
    /\ wav_idx <= Len(wav_sorted)
    /\ LET wav_path == wav_sorted[wav_idx]
           sample_name == SampleName(wav_path)
           out == ProcessWav(FileAt(files, wav_path), sample_name)
       IN  /\ processed' = Append(processed, wav_path)
           /\ CASE out.kind = "raise" ->
                     /\ Exit(1, out.exc)
                     /\ UNCHANGED <<results, assets, wav_idx>>
                [] out.kind = "none" ->
                     /\ wav_idx' = wav_idx + 1
                     /\ UNCHANGED <<results, assets, pc, exit_code, exc>>
                [] out.kind = "result" ->
                     /\ results' = Append(results, out.result)
                     /\ assets' = {a \in assets : a.name # sample_name}
                                     \cup {[name |-> sample_name,
                                            array |-> ArrayIdent(sample_name),
                                            guard |-> GuardMacro(sample_name),
                                            samples |-> out.result.samples]}
                     /\ wav_idx' = wav_idx + 1
                     /\ UNCHANGED <<pc, exit_code, exc>>
    /\ UNCHANGED <<inVars, files, sf2Vars, wav_files, wav_sorted, summary,
                   encVars, hdrVars, dspVars>>

\* after the loop: the summary table and the mapping suggestions are
\* printed and main() returns
Summary ==
    /\ pc = "convert"
    /\ wav_idx > Len(wav_sorted)
    /\ summary' = TRUE
    /\ Exit(0, None)
    /\ UNCHANGED <<inVars, files, sf2Vars, wav_files, wav_sorted, wav_idx, results,
                   assets, processed, encVars, hdrVars, dspVars>>

MainStart ==
    /\ pc = "main"
    /\ sf2_file = "none" /\ close_count = 0
    /\ drum_presets = <<>> /\ drum_preset = 0
    /\ instrument = NoInstrument
    /\ note_num = 0
    /\ extracted_samples = <<>>
    /\ pending = None
    /\ wav_files = <<>> /\ wav_sorted = <<>> /\ wav_idx = 0
    /\ results = <<>> /\ assets = {}
    /\ exit_code = -1 /\ exc = None
    /\ summary = FALSE
    /\ processed = <<>>

\* a bank whose preset list varies
InitPresets ==
    /\ input = [exists |-> TRUE, is_dir |-> FALSE, name |-> Name_bank]
    /\ os_name = "posix"
    /\ bank \in {[presets |-> ps] : ps \in BoundedSeq(PresetPool, MaxPresets)}
    /\ files = <<>>

\* a bank with one drum preset whose instrument varies
InitInstrument ==
    /\ input = [exists |-> TRUE, is_dir |-> FALSE, name |-> Name_bank]
    /\ os_name = "posix"
    /\ bank \in {[presets |-> <<StandardPreset(Instrument(<<"D", "r", "u", "m", "s">>, bags))>>] :
                    bags \in BoundedSeq(BagPool, MaxBags)}
    /\ files = <<>>

\* a directory, on either flavour of pathlib
InitDirectory ==
    /\ input = [exists |-> TRUE, is_dir |-> TRUE, name |-> Name_dir]
    /\ os_name \in {"posix", "windows"}
    /\ bank = [presets |-> <<>>]
    /\ files \in DirListings

\* a directory of one good file whose name varies
InitNames ==
    /\ input = [exists |-> TRUE, is_dir |-> TRUE, name |-> Name_dir]
    /\ os_name = "posix"
    /\ bank = [presets |-> <<>>]
    /\ files \in {<<Entry(name, WavOk16)>> : name \in NamePool}

\* a path that does not exist, and a file that is no bank
InitOther ==
    /\ input \in {[exists |-> FALSE, is_dir |-> FALSE, name |-> Name_bank],
                  [exists |-> TRUE, is_dir |-> FALSE, name |-> Name_other]}
    /\ os_name = "posix"
    /\ bank = [presets |-> <<>>]
    /\ files = <<>>

Init ==
    /\ MainStart
    /\ InitPresets \/ InitInstrument \/ InitDirectory \/ InitNames \/ InitOther
    /\ EncIdle
    /\ HdrIdle
    /\ DspIdle

Next ==
    \/ CheckInput
    \/ OpenBank
    \/ ParseBank
    \/ ScanPresets
    \/ ChoosePreset
    \/ ResolveInstrument
    \/ ExtractNote
    \/ Finally
    \/ AfterExtract
    \/ BeginConvert
    \/ ConvertOne
    \/ Summary

Spec == Init /\ [][Next]_vars

(***************************************************************************)
(* Reading the generated array back, as the firmware player does.          *)
(***************************************************************************)
HexValue(d) == (CHOOSE i \in 1..16 : HexDigits[i] = d) - 1

RECURSIVE ParseHex(_)
ParseHex(ds) == IF ds = <<>> THEN 0
                ELSE 16 * ParseHex(SubSeq(ds, 1, Len(ds) - 1)) + HexValue(ds[Len(ds)])

\* bits [15:0] and bits [31:16] of an eight-digit literal
Lo16(lit) == ParseHex(SubSeq(lit, 5, 8))

Hi16(lit) == ParseHex(SubSeq(lit, 1, 4))

\* data words only (the array without its header word)
DataWords(lits) == [k \in 1..(Len(lits) - 1) |-> lits[k + 1]]

\* decode n samples from the data words by the layout of the format
Decode(words, n) ==
    [j \in 1..n |-> ToSigned(IF j % 2 = 1 THEN Lo16(words[(j + 1) \div 2])
                                          ELSE Hi16(words[(j + 1) \div 2]), 16)]

\* C1: for a buffer of n >= 1 samples, data word k holds sample 2(k-1) in
\* bits [15:0] and sample 2(k-1)+1 in bits [31:16] as 16-bit two's
\* complement, the last word's upper half is 0 when n is odd, and decoding
\* by that layout gives back the samples.
C1_PackingLayout ==
    (enc_pc = "done" /\ Len(audio_int16) >= 1) =>
        LET n == Len(audio_int16)
            words == DataWords(cpp_file.literals)
        IN  /\ Len(words) = (n + 1) \div 2
            /\ \A k \in 1..Len(words) :
                  /\ Lo16(words[k]) = MaskBits(audio_int16[2 * (k - 1) + 1], 16)
                  /\ Hi16(words[k]) = IF 2 * (k - 1) + 2 <= n
                                      THEN MaskBits(audio_int16[2 * (k - 1) + 2], 16)
                                      ELSE 0
                  /\ Len(words[k]) = 8
            /\ Decode(words, n) = audio_int16

C1_Witness ==
    /\ enc_pc = "done"
    /\ Len(audio_int16) = 3
    /\ audio_int16[1] = -32768 /\ audio_int16[2] = 4660 /\ audio_int16[3] = -2

\* C2: the array length declared in the declaration file, the one declared
\* in the definition file and the number of literals written are all
\* 1 + (n + 1) // 2.
C2_ArrayLengths ==
    enc_pc = "done" =>
        LET n == Len(audio_int16)
        IN  /\ h_file.array_len = 1 + (n + 1) \div 2
            /\ cpp_file.array_len = 1 + (n + 1) \div 2
            /\ Len(cpp_file.literals) = 1 + (n + 1) \div 2

C2_Witness ==
    /\ enc_pc = "done"
    /\ Len(audio_int16) = 1
    /\ h_file.array_len = 2 /\ Len(cpp_file.literals) = 2

\* C3: word 0 is 0x81 * 2^24 + n for every sample count n.
C3_HeaderWord ==
    hdr_pc = "written" =>
        /\ Len(format_word) = 8
        /\ Hi16(format_word) \div 256 = 129
        /\ (Hi16(format_word) % 256) * Pow2(16) + Lo16(format_word) = num_samples

\* C4: a buffer that quantizes to zero samples fails with EmptyAudioError
\* and no asset with a zero-sample header is written for it.
C4_ZeroSamples(k) ==
    LET w == FileAt(files, processed[k])
    IN  w.readable /\ w.sampwidth \in {1, 2} /\ Len(w.frames) = 0

C4_EmptyAudioError ==
    \A k \in 1..Len(processed) :
        C4_ZeroSamples(k) =>
            /\ exc \in {None, "EmptyAudioError"}
            /\ ~\E a \in assets : a.name = SampleName(processed[k]) /\ a.samples = 0

\* the key range [low, high] of a bag, for either form of key_range
C5_InRange(bag, n) ==
    \/ /\ bag.key_range.type = "list"
       /\ bag.key_range.v[1] <= n /\ n <= bag.key_range.v[2]
    \/ /\ bag.key_range.type = "int"
       /\ bag.key_range.v % 256 <= n /\ n <= (bag.key_range.v \div 256) % 256

C5_Extracted(n) == {i \in 1..Len(extracted_samples) : extracted_samples[i].note = n}

\* C5: for every note of the drum range already handled, the WAV written
\* for it holds the sample of the first bag, in declared order, whose key
\* range contains the note, whatever later bags match too; a note that no
\* bag's range contains is absent from the output, and the loop raises
\* nothing.
C5_FirstMatchWins ==
    instrument.present =>
        /\ pc \in {"notes", "finally"} => pending = None
        /\ \A n \in FirstNote..(note_num - 1) :
              LET bags == instrument.bags
                  hits == {i \in 1..Len(bags) : C5_InRange(bags[i], n)}
              IN  /\ hits = {} => C5_Extracted(n) = {}
                  /\ \A e \in C5_Extracted(n) :
                        /\ hits # {}
                        /\ LET first == CHOOSE i \in hits : \A j \in hits : i <= j
                           IN  /\ bags[first].sample.present
                               /\ FileAt(files, extracted_samples[e].wav_path).frames
                                     = [x \in 1..Len(bags[first].sample.pcm) |->
                                           ExtractConvert(bags[first].sample.pcm[x])]
                  /\ (hits # {} /\ LET first == CHOOSE i \in hits : \A j \in hits : i <= j
                                   IN  bags[first].sample.present
                                       /\ bags[first].sample.readable)
                        => Cardinality(C5_Extracted(n)) = 1

\* ranges [30,40] then [35,45]: note 37 is answered by the first
C5_Witness ==
    /\ pc = "returned"
    /\ instrument.present
    /\ instrument.bags = <<Bag(KeyList(30, 40), S_kick), Bag(KeyList(35, 45), S_snare)>>
    /\ \E e \in C5_Extracted(37) :
          FileAt(files, extracted_samples[e].wav_path).frames = <<999, -2>>
    /\ C5_Extracted(46) = {}

\* a candidate: bank index 128, or a name containing "drum", "kit" or
\* "standard" whatever the case
C6_HasWord(p, word) ==
    p.name.type # "raises" /\ Contains(Lower(PresetName(p)), word)

C6_Candidate(p) ==
    \/ p.bank.has /\ p.bank.v = 128
    \/ C6_HasWord(p, Str_drum) \/ C6_HasWord(p, Str_kit) \/ C6_HasWord(p, Str_standard)

C6_Candidates == {i \in 1..Len(bank.presets) : C6_Candidate(bank.presets[i])}

C6_Standards == {i \in C6_Candidates : C6_HasWord(bank.presets[i], Str_standard)}

C6_Least(S) == CHOOSE i \in S : \A j \in S : i <= j

C7_FailureIsolation ==
    (pc = "exit" /\ wav_idx >= 1) => processed = wav_sorted

\* C8: the bank file is open at every step from parsing to the end of the
\* extraction loop, and it is closed exactly once on every way out of the
\* extraction, after the last note was handled.
C8_HandleScope ==
    /\ pc \in {"parse", "find_presets", "select", "instrument", "notes", "finally"} =>
          sf2_file = "open" /\ close_count = 0
    /\ pc \in {"returned", "convert_start", "convert"} =>
          sf2_file = IF input.is_dir THEN "none" ELSE "closed"
    /\ pc \in {"returned", "convert_start", "convert"} =>
          close_count = IF input.is_dir THEN 0 ELSE 1
    /\ pc = "exit" =>
          \/ sf2_file = "none" /\ close_count = 0 /\ extracted_samples = <<>>
          \/ sf2_file = "closed" /\ close_count = 1
    /\ sf2_file = "closed" => (pc \notin {"notes"} /\ (instrument.present => note_num = LastNote + 1))

\* the normal way out, after notes were extracted
C8_Witness ==
    /\ pc = "returned"
    /\ Len(extracted_samples) >= 2
    /\ sf2_file = "closed" /\ close_count = 1

\* C9: a run that got past input validation and went through its batch
\* prints the summary table, and ends with a non-zero exit status when no
\* sample succeeded.
C9_SummaryAndFatal ==
    (pc = "exit" /\ wav_idx > Len(wav_sorted)) =>
        /\ summary
        /\ results = <<>> => exit_code # 0

\* the files of the listing that are waveform files under a
\* case-insensitive comparison of the extension
C10_WavNames == {files[i].name : i \in {j \in 1..Len(files) :
                                          Lower(Suffix(files[j].name)) = Str_wav}}

\* C10: for a directory the files processed are exactly those with the
\* extension ".wav" in any case, each once, in the order of their names
\* that puts a.wav before B.WAV.
C10_DirectoryOrder ==
    (input.is_dir /\ wav_idx >= 1) =>
        /\ {wav_sorted[i] : i \in 1..Len(wav_sorted)} = C10_WavNames
        /\ Len(wav_sorted) = Cardinality(C10_WavNames)
        /\ \A i, j \in 1..Len(wav_sorted) :
              i < j => StrLess(Lower(wav_sorted[i]), Lower(wav_sorted[j]))

\* C11: when some sample of the buffer is above 1% of the absolute peak,
\* with f and l the indices of the first and last such samples, trim
\* returns exactly the samples of indices max(0, f - 100) through
\* min(len - 1, l + 4410); a buffer with no such sample is returned
\* unchanged, and the result is never empty.
C11_Above ==
    LET S == {Abs(audio_in[i]) : i \in 1..Len(audio_in)}
        peak == CHOOSE m \in S : \A x \in S : x <= m
    IN  {i \in 1..Len(audio_in) : 100 * Abs(audio_in[i]) > peak}

C11_TrimMargins ==
    (dsp_fn = "trim_silence" /\ dsp_pc = "returned") =>
        /\ audio_out # <<>>
        /\ IF C11_Above = {} THEN audio_out = audio_in
           ELSE LET f == (CHOOSE i \in C11_Above : \A j \in C11_Above : i <= j) - 1
                    l == (CHOOSE i \in C11_Above : \A j \in C11_Above : i >= j) - 1
                    lo == IF f - 100 > 0 THEN f - 100 ELSE 0
                    hi == IF l + 4410 < Len(audio_in) - 1 THEN l + 4410
                          ELSE Len(audio_in) - 1
                IN  audio_out = SubSeq(audio_in, lo + 1, hi + 1)

\* ---- C14: the envelopes of the two fades ----
C14_Faded == dsp_fn \in {"apply_fade_in", "apply_fade_out"} /\ dsp_pc = "returned"

\* w = min(882, L) for fade-in, v = min(2205, L) for fade-out
C14_W ==
    LET L == Len(audio_in)
        full == IF dsp_fn = "apply_fade_in" THEN 882 ELSE 2205
    IN  IF full < L THEN full ELSE L

\* the window: the first w samples, or the last v
C14_First == IF dsp_fn = "apply_fade_in" THEN 1 ELSE Len(audio_in) - C14_W + 1

C14_Last == IF dsp_fn = "apply_fade_in" THEN C14_W ELSE Len(audio_in)

\* the multiplier sample i was given: output over input, as a fraction with
\* a positive denominator (no input sample is zero)
C14_M(i) ==
    IF audio_in[i] > 0 THEN [n |-> audio_out[i].n, d |-> audio_out[i].d * audio_in[i]]
    ELSE [n |-> 0 - audio_out[i].n, d |-> audio_out[i].d * (0 - audio_in[i])]

C14_Leq(a, b) == a.n * b.d <= b.n * a.d

C14_Is(a, k) == a.n = k * a.d

\* the ramp starts at 0.0 and ends at 1.0 for fade-in, 1.0 and 0.0 for fade-out
C14_From == IF dsp_fn = "apply_fade_in" THEN 0 ELSE 1

C14_To == IF dsp_fn = "apply_fade_in" THEN 1 ELSE 0

\* length kept, samples outside the window unchanged, multipliers monotone
C14_Shape ==
    /\ Len(audio_out) = Len(audio_in)
    /\ \A i \in 1..Len(audio_in) :
          (i < C14_First \/ i > C14_Last) => C14_Is(C14_M(i), 1)
    /\ \A i \in C14_First..(C14_Last - 1) :
          IF dsp_fn = "apply_fade_in" THEN C14_Leq(C14_M(i), C14_M(i + 1))
          ELSE C14_Leq(C14_M(i + 1), C14_M(i))

\* C14 as stated: for every buffer of length L, fade-in multiplies only the
\* first w = min(882, L) samples by multipliers non-decreasing from 0.0 to
\* 1.0, fade-out only the last v = min(2205, L) samples by multipliers
\* non-increasing from 1.0 to 0.0; the other samples and the length are kept.
C14_FadeEnvelope ==
    C14_Faded =>
        /\ C14_Shape
        /\ C14_W >= 1 => /\ C14_Is(C14_M(C14_First), C14_From)
                         /\ C14_Is(C14_M(C14_Last), C14_To)

\* C14 amended: as stated for every window of two samples or more; a window
\* of one sample (L = 1) gets the single multiplier the ramp starts at, 0.0
\* for fade-in and 1.0 for fade-out.
C14_FadeEnvelopeFromTwo ==
    C14_Faded =>
        /\ C14_Shape
        /\ C14_W >= 2 => /\ C14_Is(C14_M(C14_First), C14_From)
                         /\ C14_Is(C14_M(C14_Last), C14_To)
        /\ C14_W = 1 => C14_Is(C14_M(C14_First), C14_From)

\* a fade-out that returned a buffer one sample longer than its window: the
\* first sample is as it was, the window starts at 1.0 and ends at 0.0
C14_Witness ==
    /\ dsp_fn = "apply_fade_out" /\ dsp_pc = "returned"
    /\ Len(audio_in) = 2206 /\ Len(audio_out) = 2206
    /\ audio_in[1] = 1 /\ audio_in[2] = -1
    /\ audio_out[1] = [n |-> 1, d |-> 1]
    /\ audio_out[2] = [n |-> -2204, d |-> 2204]
    /\ audio_out[2206].n = 0

\* C12: every sample s in [-1.0, 1.0] is written to the raw PCM dump as
\* round(s * 32767), rounded to the nearest integer and clamped to
\* [-32768, 32767].
C12_Round(n, d) ==
    LET q == IF n >= 0 THEN n \div d ELSE 0 - (((0 - n) + d - 1) \div d)
        r == n - q * d
    IN  IF 2 * r >= d THEN q + 1 ELSE q

C12_Clamp(x) == IF x > 32767 THEN 32767 ELSE IF x < -32768 THEN -32768 ELSE x

C12_RoundToNearest ==
    enc_pc \in {"header", "done"} =>
        /\ Len(audio_int16) = Len(audio_data)
        /\ Len(raw_file) = 2 * Len(audio_data)
        /\ \A i \in 1..Len(audio_data) :
              LET s == audio_data[i]
              IN  (0 - s.d <= s.n /\ s.n <= s.d) =>
                      /\ audio_int16[i] = C12_Clamp(C12_Round(s.n * 32767, s.d))
                      /\ raw_file[2 * i - 1] + 256 * raw_file[2 * i]
                             = audio_int16[i] % 65536

\* C13: the identifier of the packed array and of the include guard, made
\* from the sample name, holds lower-case letters, digits and underscores
\* only, whatever the file name or drum name held.  (The guard is the same
\* identifier in capitals: its letters count without regard to case.)
C13_Clean(c) == IsLowerCase(c) \/ IsDigit(c) \/ c = "_"

C13_Identifiers ==
    \A a \in assets :
        /\ \A i \in 1..Len(a.name) : C13_Clean(a.name[i])
        /\ \A i \in 1..Len(a.array) : C13_Clean(a.array[i])
        /\ \A i \in 1..Len(a.guard) : C13_Clean(LowerChar(a.guard[i]))

====
